---- MODULE Spec2Model ----
(***************************************************************************)
(* Model of csrc::PlotDataSet (include/SFGraphing/PlotDataSet.h): the data *)
(* constructor and the static builder MultiPlotDatSet with its four        *)
(* compile-time cases.  One action is one call; the state holds the        *)
(* arguments of the call and the way it ended.                             *)
(*                                                                         *)
(* Indices are 1-based here and 0-based in the source: the source's        *)
(* `i < n` over 0..n-1 is `i \in 1..n` here.                               *)
(*                                                                         *)
(* Out-of-range accesses of std::vector::operator[] are undefined          *)
(* behaviour.  Every call takes an oracle g that fixes what such an access *)
(* does in that run: the process dies (g.crash), or it goes on with what   *)
(* happened to be in memory (g.sz for a size read, g.xv / g.yv for a       *)
(* vector read, 0 for an element read; a write past the end is lost).      *)
(***************************************************************************)
EXTENDS Integers, Sequences, FiniteSets, TLC

\* ------------------------------------------------------------------ bounds
MaxN == 2          \* largest outer length (samples) of an input
MaxM == 2          \* largest inner length (series per sample) of an input
MaxLabels == 3     \* largest number of labels passed to a call

\* ------------------------------------------------------- values and types
PlottingType == {"POINTS", "LINE", "BARS"}
Colors == {"White", "Red"}
LabelNames == <<"a", "b", "c", "d", "e", "f">>

\* significand width of the float the vectors _xValues/_yValues store
FloatMantissaBits == 24

RECURSIVE Ulp(_, _)
\* spacing of the floats around the magnitude a: the smallest power of two q
\* with a < 2^24 * q
Ulp(a, q) == IF a < (2 ^ FloatMantissaBits) * q THEN q ELSE Ulp(a, 2 * q)

\* round-to-nearest, ties to even, of a non-negative integer magnitude
RoundMag(a) ==
  LET q  == Ulp(a, 1)
      lo == (a \div q) * q
      r  == a - lo
  IN  IF 2 * r < q THEN lo
      ELSE IF 2 * r > q THEN lo + q
      ELSE IF (lo \div q) % 2 = 0 THEN lo ELSE lo + q

\* the conversion T -> float done by std::vector<float>(first, last) and by
\* the assignments into std::vector<float> elements
ToFloat(v) == IF v < 0 THEN 0 - RoundMag(0 - v) ELSE RoundMag(v)

ToFloatVec(s) == [i \in 1..Len(s) |-> ToFloat(s[i])]

\* ------------------------------------------------------------- containers
\* PlotDataSet(): no points, default metadata
DefaultDataSet ==
  [xValues |-> <<>>, yValues |-> <<>>, color |-> "White", label |-> "",
   pType |-> "POINTS"]

\* the data constructor without its size check
PlotDataSetCtorNoCheck(xv, yv, c, l, t) ==
  [exited |-> FALSE,
   lens   |-> <<Len(xv), Len(yv)>>,
   ds     |-> [xValues |-> ToFloatVec(xv), yValues |-> ToFloatVec(yv),
               color |-> c, label |-> l, pType |-> t]]

\* PlotDataSet(xValues, yValues, color, label, type): exited is the exit(1)
\* of the size check, lens the lengths of the two sequences it received
PlotDataSetCtor(xv, yv, c, l, t) ==
  [exited |-> Len(ToFloatVec(xv)) # Len(ToFloatVec(yv)),
   lens   |-> <<Len(xv), Len(yv)>>,
   ds     |-> [xValues |-> ToFloatVec(xv), yValues |-> ToFloatVec(yv),
               color |-> c, label |-> l, pType |-> t]]

\* ------------------------------------------------------------ call results
\* status: "returned", "thrown" (std::runtime_error), "exit" (exit(1)),
\* "crash" (the process died in an out-of-range access).
\* oob: the run made an out-of-range access.  ctorCalls: the lengths handed
\* to each data constructor call the run made.
Returned(o, b, cl) == [status |-> "returned", out |-> o, oob |-> b, ctorCalls |-> cl]
Thrown(b) == [status |-> "thrown", out |-> <<>>, oob |-> b, ctorCalls |-> <<>>]
Exited(b, cl) == [status |-> "exit", out |-> <<>>, oob |-> b, ctorCalls |-> cl]
Crashed == [status |-> "crash", out |-> <<>>, oob |-> TRUE, ctorCalls |-> <<>>]

\* index of the first constructor call that exits, 0 if none does
FirstExit(calls) ==
  IF \E i \in 1..Len(calls) : calls[i].exited
  THEN CHOOSE i \in 1..Len(calls) :
         calls[i].exited /\ \A k \in 1..(i - 1) : ~calls[k].exited
  ELSE 0

\* a run of constructor calls filling out: it stops at the first exit(1)
Finish(calls, o, b) ==
  LET fe == FirstExit(calls)
  IN  IF fe # 0
      THEN Exited(b, [k \in 1..fe |-> calls[k].lens])
      ELSE Returned(o, b, [k \in 1..Len(calls) |-> calls[k].lens])

\* ----------------------------------------------------------------- labels
\* labels.empty() ? "" : labels[0], with the label dropped
FirstLabelDropped(labels) == ""

\* labels.empty() ? "" : labels[0]
FirstLabel(labels) == IF Len(labels) = 0 THEN "" ELSE labels[1]

\* i < labels_sz ? labels[i] : ""   (k = i + 1)
LabelAt(labels, k) == IF k <= Len(labels) THEN labels[k] ELSE ""

\* ---------------------------------------------------------------- builder
\* case 1, neither x nor y iterable
BuildScalarScalar(x, y, c, t, labels, g) ==
  LET call == PlotDataSetCtor(x, y, c, FirstLabel(labels), t)
  IN  Finish(<<call>>, <<call.ds>>, FALSE)

\* case 2, y iterable and x not
BuildScalarNested(x, y, c, t, labels, g) ==
  LET sz          == Len(x)
      oob0        == Len(y) = 0                 \* yValues[0] of an empty y
      internal_sz == IF oob0 THEN g.sz ELSE Len(y[1])
  IN  IF oob0 /\ g.crash THEN Crashed
      ELSE IF sz = 0 THEN Thrown(oob0)
      ELSE
        LET InY(j, i) == j <= Len(y) /\ i <= Len(y[j])
            oobRead   == \E i \in 1..internal_sz, j \in 1..sz : ~InY(j, i)
            data      == [i \in 1..internal_sz |->
                           [j \in 1..sz |->
                             ToFloat(IF InY(j, i) THEN y[j][i] ELSE 0)]]
            oobWrite  == internal_sz > sz       \* out[i] with i >= out.size()
            calls     == [i \in 1..internal_sz |->
                           PlotDataSetCtor(x, data[i], c, LabelAt(labels, i), t)]
            out       == [k \in 1..sz |->
                           IF k <= internal_sz THEN calls[k].ds
                           ELSE DefaultDataSet]
            oob       == oob0 \/ oobRead \/ oobWrite
        IN  IF oob /\ g.crash THEN Crashed ELSE Finish(calls, out, oob)

\* case 3, x and y iterable
BuildNestedNested(x, y, c, t, labels, g) ==
  LET sz          == Len(x)
      oob0        == Len(y) = 0                 \* yValues[0] of an empty y
      internal_sz == IF oob0 THEN g.sz ELSE Len(y[1])
  IN  IF oob0 /\ g.crash THEN Crashed
      ELSE IF Len(y) # sz THEN Thrown(oob0)
      ELSE
        LET InX(j, i) == i <= Len(x[j])
            InY(j, i) == i <= Len(y[j])
            oobRead   == \E i \in 1..internal_sz, j \in 1..sz :
                           ~InX(j, i) \/ ~InY(j, i)
            xdata     == [i \in 1..internal_sz |->
                           [j \in 1..sz |->
                             ToFloat(IF InX(j, i) THEN x[j][i] ELSE 0)]]
            ydata     == [i \in 1..internal_sz |->
                           [j \in 1..sz |->
                             ToFloat(IF InY(j, i) THEN y[j][i] ELSE 0)]]
            oobRow    == sz > internal_sz       \* xdata[i] with i >= xdata.size()
            calls     == [i \in 1..sz |->
                           IF i <= internal_sz
                           THEN PlotDataSetCtor(xdata[i], ydata[i], c,
                                                LabelAt(labels, i), t)
                           ELSE PlotDataSetCtor(g.xv, g.yv, c,
                                                LabelAt(labels, i), t)]
            out       == [k \in 1..sz |-> calls[k].ds]
            oob       == oob0 \/ oobRead \/ oobRow
        IN  IF oob /\ g.crash THEN Crashed ELSE Finish(calls, out, oob)

\* x iterable and y not: no case applies, return {}
BuildNestedScalar(x, y, c, t, labels, g) == Returned(<<>>, FALSE, <<>>)

MultiPlotDatSet(case, x, y, c, t, labels, g) ==
  CASE case = "SS" -> BuildScalarScalar(x, y, c, t, labels, g)
    [] case = "SN" -> BuildScalarNested(x, y, c, t, labels, g)
    [] case = "NN" -> BuildNestedNested(x, y, c, t, labels, g)
    [] case = "NS" -> BuildNestedScalar(x, y, c, t, labels, g)

\* ----------------------------------------------------------------- inputs
Bases == {0, 2 ^ FloatMantissaBits}

\* flat sequences of numbers, x[n] = b + n
FlatInputs == { [n \in 1..N |-> b + n] : N \in 0..MaxN, b \in Bases }

\* rectangular tables of N samples of M numbers, v[n][s] = b + off + 10 s + n
Tables(off) ==
  { [n \in 1..N |-> [s \in 1..M |-> b + off + 10 * s + n]] :
      N \in 0..MaxN, M \in 0..MaxM, b \in Bases }

NestedX == Tables(100)
NestedY == Tables(0)

LabelInputs == { SubSeq(LabelNames, 1, L) : L \in 0..MaxLabels }

GarbageVecs == { <<>>, <<0>> }
Oracles == [crash : BOOLEAN, sz : 0..MaxM, xv : GarbageVecs, yv : GarbageVecs]

\* ------------------------------------------------------------------ state
VARIABLES op, xValues, yValues, color, pType, labels, status, out, oob, ctorCalls

vars == <<op, xValues, yValues, color, pType, labels, status, out, oob, ctorCalls>>

Init ==
  /\ op = "none"
  /\ xValues = <<>>
  /\ yValues = <<>>
  /\ color = "White"
  /\ pType = "POINTS"
  /\ labels = <<>>
  /\ status = "none"
  /\ out = <<>>
  /\ oob = FALSE
  /\ ctorCalls = <<>>

Call(case, x, y, c, t, ls, r) ==
  /\ op' = case
  /\ xValues' = x
  /\ yValues' = y
  /\ color' = c
  /\ pType' = t
  /\ labels' = ls
  /\ status' = r.status
  /\ out' = r.out
  /\ oob' = r.oob
  /\ ctorCalls' = r.ctorCalls

\* PlotDataSet(x, y, color, label, type); labels holds the one label
Construct ==
  /\ op = "none"
  /\ \E x \in FlatInputs, y \in FlatInputs, c \in Colors, t \in PlottingType,
        ls \in { l \in LabelInputs : Len(l) = 1 } :
       LET call == PlotDataSetCtor(x, y, c, ls[1], t)
       IN  Call("Ctor", x, y, c, t, ls, Finish(<<call>>, <<call.ds>>, FALSE))

MultiScalarScalar ==
  /\ op = "none"
  /\ \E x \in FlatInputs, y \in FlatInputs, c \in Colors, t \in PlottingType,
        ls \in LabelInputs, g \in Oracles :
       Call("SS", x, y, c, t, ls, MultiPlotDatSet("SS", x, y, c, t, ls, g))

MultiScalarNested ==
  /\ op = "none"
  /\ \E x \in FlatInputs, y \in NestedY, c \in Colors, t \in PlottingType,
        ls \in LabelInputs, g \in Oracles :
       Call("SN", x, y, c, t, ls, MultiPlotDatSet("SN", x, y, c, t, ls, g))

MultiNestedNested ==
  /\ op = "none"
  /\ \E x \in NestedX, y \in NestedY, c \in Colors, t \in PlottingType,
        ls \in LabelInputs, g \in Oracles :
       Call("NN", x, y, c, t, ls, MultiPlotDatSet("NN", x, y, c, t, ls, g))

MultiNestedScalar ==
  /\ op = "none"
  /\ \E x \in NestedX, y \in FlatInputs, c \in Colors, t \in PlottingType,
        ls \in LabelInputs, g \in Oracles :
       Call("NS", x, y, c, t, ls, MultiPlotDatSet("NS", x, y, c, t, ls, g))

Next ==
  \/ Construct
  \/ MultiScalarScalar
  \/ MultiScalarNested
  \/ MultiNestedNested
  \/ MultiNestedScalar

Spec == Init /\ [][Next]_vars

\* ------------------------------------------------------------- properties
Builders == {"SS", "SN", "NN"}

\* the table t has N rows, each of M numbers
Rect(t, N, M) == Len(t) = N /\ \A j \in 1..Len(t) : Len(t[j]) = M

\* number of series of the call: the inner length of the first sample of y
SeriesCount == IF Len(yValues) = 0 THEN 0 ELSE Len(yValues[1])

\* column s of the table t, as stored
Column(t, s) == [n \in 1..Len(t) |-> ToFloat(t[n][s])]

\* the label the claim gives the output at position k
ExpectedLabel(k) == IF k <= Len(labels) THEN labels[k] ELSE ""

\* C1: scalar-nested case, x flat of length N >= 1 and y of N samples of
\* M >= 1 numbers: the call returns exactly M containers and container s
\* holds the N points (xValues[n], yValues[n][s]), for every N and M.
\* Stated of the runs that make no out-of-range access.
ScalarNestedTranspose_C1 ==
  (/\ op = "SN"
   /\ ~oob
   /\ Len(xValues) >= 1
   /\ SeriesCount >= 1
   /\ Rect(yValues, Len(xValues), SeriesCount))
  => /\ status = "returned"
     /\ Len(out) = SeriesCount
     /\ \A s \in 1..SeriesCount :
          /\ out[s].xValues = ToFloatVec(xValues)
          /\ out[s].yValues = Column(yValues, s)

\* C2: nested-nested case, x and y both of N >= 1 samples of M >= 1 numbers:
\* the call returns exactly M containers and container s holds the N points
\* (xValues[n][s], yValues[n][s]), for every N and M.
\* Stated of the runs that make no out-of-range access.
NestedNestedTranspose_C2 ==
  (/\ op = "NN"
   /\ ~oob
   /\ Len(xValues) >= 1
   /\ SeriesCount >= 1
   /\ Rect(yValues, Len(xValues), SeriesCount)
   /\ Rect(xValues, Len(xValues), SeriesCount))
  => /\ status = "returned"
     /\ Len(out) = SeriesCount
     /\ \A s \in 1..SeriesCount :
          /\ out[s].xValues = Column(xValues, s)
          /\ out[s].yValues = Column(yValues, s)

\* the inputs of the call hold at least one series
HasSeries == op = "SS" \/ SeriesCount >= 1

\* C3: every container of a collection returned by MultiPlotDatSet carries
\* the color and the plotting kind passed to the call.  Stated of the runs
\* that make no out-of-range access, on inputs of at least one series.
UniformColorAndKind_C3 ==
  (op \in Builders /\ status = "returned" /\ ~oob /\ HasSeries)
  => \A k \in 1..Len(out) : out[k].color = color /\ out[k].pType = pType

\* C4: the output at position s has label labels[s] when s is below the
\* number of labels and the empty label otherwise, and the way the call ends
\* does not depend on the labels.  The labels are stated of the runs that
\* make no out-of-range access, on inputs of at least one series.
PositionalLabels_C4 ==
  (op \in Builders)
  => /\ (status = "returned" /\ ~oob /\ HasSeries) => \A k \in 1..Len(out) : out[k].label = ExpectedLabel(k)
     /\ \E g \in Oracles :
          MultiPlotDatSet(op, xValues, yValues, color, pType, <<>>, g).status = status

\* C5: scalar-nested case with an empty xValues: the call ends in the
\* catchable runtime error, returns nothing and reads no element out of
\* range, for every yValues.
EmptyXThrows_C5 ==
  (op = "SN" /\ Len(xValues) = 0)
  => status = "thrown" /\ out = <<>> /\ ~oob

\* C6: nested-nested case with different outer lengths of xValues and
\* yValues: the call ends in the catchable runtime error before any
\* container is built, without an out-of-range read.
OuterMismatchThrows_C6 ==
  (op = "NN" /\ Len(xValues) # Len(yValues))
  => status = "thrown" /\ out = <<>> /\ ctorCalls = <<>> /\ ~oob

\* C7: the data constructor exits the process whenever the two sequences
\* differ in length, and every container that exists after a constructor
\* call or in a collection returned by MultiPlotDatSet has as many x values
\* as y values.
EqualLengths_C7 ==
  /\ (op = "Ctor" /\ Len(xValues) # Len(yValues)) => (status = "exit" /\ out = <<>>)
  /\ \A k \in 1..Len(out) : Len(out[k].xValues) = Len(out[k].yValues)

\* C7 witness: a data constructor call with sequences of different lengths
\* has ended in exit(1).
CtorMismatchExited_C7 ==
  op = "Ctor" /\ Len(xValues) # Len(yValues) /\ Len(xValues) >= 1 /\ status = "exit"

\* C8 as stated: scalar-scalar case; for equal lengths the call returns one
\* container whose stored points are exactly (X[i], Y[i]) in input order,
\* labelled labels[0] or empty; for different lengths the process exits.
ScalarScalarExact_C8 ==
  (op = "SS")
  => IF Len(xValues) = Len(yValues)
     THEN /\ status = "returned"
          /\ Len(out) = 1
          /\ out[1].xValues = xValues
          /\ out[1].yValues = yValues
          /\ out[1].label = (IF Len(labels) = 0 THEN "" ELSE labels[1])
     ELSE status = "exit"

\* C8 amended: as C8, the stored points being (X[i], Y[i]) narrowed to
\* single precision.
ScalarScalarNarrowed_C8 ==
  (op = "SS")
  => IF Len(xValues) = Len(yValues)
     THEN /\ status = "returned"
          /\ Len(out) = 1
          /\ Len(out[1].xValues) = Len(xValues)
          /\ Len(out[1].yValues) = Len(yValues)
          /\ \A i \in 1..Len(xValues) :
               /\ out[1].xValues[i] = ToFloat(xValues[i])
               /\ out[1].yValues[i] = ToFloat(yValues[i])
          /\ out[1].label = (IF Len(labels) = 0 THEN "" ELSE labels[1])
     ELSE status = "exit"

\* C8 witness: a scalar-scalar call with labels has returned a container of
\* two points, one of whose inputs is not representable in single precision.
ScalarScalarReturned_C8 ==
  /\ op = "SS"
  /\ status = "returned"
  /\ Len(labels) >= 2
  /\ Len(xValues) = 2
  /\ \E i \in 1..Len(xValues) : ToFloat(xValues[i]) # xValues[i]
  /\ out[1].label = labels[1]

\* C9: in the scalar-nested and nested-nested cases every data constructor
\* call receives two sequences of the same length and the fatal exit is
\* never taken.  Stated of the rectangular inputs of N >= 1 samples of
\* M >= 1 numbers.
NoFatalExitInNestedCases_C9 ==
  (/\ op \in {"SN", "NN"}
   /\ Len(xValues) >= 1
   /\ SeriesCount >= 1
   /\ Rect(yValues, Len(xValues), SeriesCount)
   /\ op = "NN" => Rect(xValues, Len(xValues), SeriesCount))
  => /\ status # "exit"
     /\ \A k \in 1..Len(ctorCalls) : ctorCalls[k][1] = ctorCalls[k][2]

\* C10: for a rectangular input accepted without error (N >= 1 samples of
\* M >= 1 numbers) no index used by the reshaping is out of range, for every
\* relation between N and M.
IndexSafety_C10 ==
  (/\ op \in {"SN", "NN"}
   /\ Len(xValues) >= 1
   /\ SeriesCount >= 1
   /\ Rect(yValues, Len(xValues), SeriesCount)
   /\ op = "NN" => Rect(xValues, Len(xValues), SeriesCount))
  => ~oob

====
